---- MODULE Spec2Model ----
(***************************************************************************)
(* Model of scraper.py: fetch_historical_esg (the per-ticker fetch loop    *)
(* and the final concatenation), format_esg_data (the column formatter)    *)
(* and the part of the main block that chains the two.                     *)
(*                                                                         *)
(* A table (pandas DataFrame) is [columns, rows]: columns is the sequence  *)
(* of column labels, rows the sequence of rows, a row being a function     *)
(* from the column labels to cells.  A cell is a tuple: <<>> is the        *)
(* missing value (NaN / NaT), <<v>> a value, <<days, secs>> a calendar     *)
(* timestamp.                                                              *)
(***************************************************************************)
EXTENDS Integers, Sequences, FiniteSets, TLC

VARIABLES tickers, i, pc, response, all_data, successful_tickers,
          failed_tickers, trace, console, served, final_df, final_esg_df

vars == <<tickers, i, pc, response, all_data, successful_tickers,
          failed_tickers, trace, console, served, final_df, final_esg_df>>

(***************************************************************************)
(* Bounds and input sets                                                   *)
(***************************************************************************)
\* Longest ticker list handed to fetch_historical_esg.
MaxTickers == 3

\* Ticker symbols the lists are drawn from (a list may repeat a symbol:
\* fetch_historical_esg does not require its argument to be duplicate free).
Tickers == {"AAA", "BBB"}

\* Values of datetime.now().strftime('%Y-%m-%d') a run may observe.
Dates == {"2026-11-03", "2026-11-04"}

\* time.sleep(10) of the rate-limit branch.
BackoffSeconds == 10

\* delay=5 of the call in the main block; the pacing wait lasts
\* delay + random.uniform(0, 3) seconds, of which the log keeps the base.
Delay == 5

(***************************************************************************)
(* Sequences and tables                                                    *)
(***************************************************************************)
Range(s) == {s[k] : k \in DOMAIN s}

SeqsUpTo(S, n) == UNION {[1..k -> S] : k \in 0..n}

Reverse(s) == [k \in DOMAIN s |-> s[Len(s) + 1 - k]]

\* F applied to the value of v (v is evaluated once, whatever F does with it).
With(v, F(_)) == CHOOSE y \in {F(x) : x \in {v}} : TRUE

\* The concatenation of the sequences of ss.
Flatten(ss) ==
    With(ss, LAMBDA s :
        LET upto[k \in 0..Len(s)] == IF k = 0 THEN <<>> ELSE upto[k - 1] \o s[k]
        IN  upto[Len(s)])

\* The labels of the label sequences of ss, each once, in order of first
\* appearance.
FirstAppearance(ss) ==
    With(ss, LAMBDA s :
        Flatten([k \in DOMAIN s |->
            SelectSeq(s[k], LAMBDA l : \A j \in 1..(k - 1) : l \notin Range(s[j]))]))

NaN == <<>>

Table(cols, rws) == [columns |-> cols, rows |-> rws]

\* DataFrame.empty: an axis of length 0.
IsEmpty(df) == df.rows = <<>> \/ df.columns = <<>>

\* df[label] = value: overwrite the column, or append it when it is new.
SetColumn(df, label, value) ==
    With(df, LAMBDA d :
        Table(IF label \in Range(d.columns) THEN d.columns
              ELSE Append(d.columns, label),
              [k \in DOMAIN d.rows |->
                  [c \in Range(d.columns) \cup {label} |->
                      IF c = label THEN value ELSE d.rows[k][c]]]))

\* df[labels] for labels that are all columns of df (the caller decides
\* what a missing label raises).
SelectColumns(df, labels) ==
    With(df, LAMBDA d :
        Table(labels,
              [k \in DOMAIN d.rows |-> [c \in Range(labels) |-> d.rows[k][c]]]))

\* pd.to_datetime(x, unit="s") on one cell: epoch seconds to a calendar
\* timestamp (days since the epoch, seconds of the day); NaN becomes NaT.
ToDatetime(cell) ==
    IF cell = NaN THEN NaN
    ELSE <<cell[1] \div 86400, cell[1] % 86400>>

\* pd.concat(frames, ignore_index=True): columns are the union of the
\* frames' columns in order of first appearance, rows follow frame by
\* frame, a column a frame lacks is NaN in that frame's rows.
ConcatColumns(frames) ==
    FirstAppearance([f \in DOMAIN frames |-> frames[f].columns])

Widen(row, cols) ==
    [c \in Range(cols) |-> IF c \in DOMAIN row THEN row[c] ELSE NaN]

\* Concat with the frames taken last first.
Concat_Reversed(frames) ==
    With(ConcatColumns(frames), LAMBDA cols :
        Table(cols,
              Flatten([f \in DOMAIN frames |->
                  [k \in DOMAIN frames[Len(frames) + 1 - f].rows |->
                      Widen(frames[Len(frames) + 1 - f].rows[k], cols)]])))

Concat(frames) ==
    With(ConcatColumns(frames), LAMBDA cols :
        Table(cols,
              Flatten([f \in DOMAIN frames |->
                  [k \in DOMAIN frames[f].rows |->
                      Widen(frames[f].rows[k], cols)]])))

(***************************************************************************)
(* The endpoint's answers                                                  *)
(***************************************************************************)
\* Keys of one series record, in the order the endpoint writes them.
FieldOrder ==
    <<"timestamp", "esgScore", "governanceScore", "environmentScore",
      "socialScore">>

ScoreFields == Range(FieldOrder) \ {"timestamp"}

\* The j-th record of a series (one day after the (j-1)-th), without the
\* keys in `omit`.
SeriesRecord(j, omit) ==
    [f \in Range(FieldOrder) \ omit |->
        CASE f = "timestamp"        -> 1609459200 + (j - 1) * 86400
          [] f = "esgScore"         -> 45 + j
          [] f = "governanceScore"  -> 40 + j
          [] f = "environmentScore" -> 50 + j
          [] f = "socialScore"      -> 46 + j]

\* symbolSeries as a list of records (keys come from the records) ...
RecordList(recs) == [form |-> "records", keys |-> <<>>, recs |-> recs]
\* ... or as an object of equally long lists, one per key.
ColumnLists(keys, recs) == [form |-> "columns", keys |-> keys, recs |-> recs]

\* The series a reply may carry: none, one or two complete records, a score
\* missing from one record of two, the timestamp missing, one score missing
\* from every record (each of the four; one or two records), and the
\* object-of-lists form with empty lists.
SeriesInputs ==
    { RecordList(<<>>),
      RecordList(<<SeriesRecord(1, {})>>),
      RecordList(<<SeriesRecord(1, {}), SeriesRecord(2, {})>>),
      RecordList(<<SeriesRecord(1, {}), SeriesRecord(2, {"socialScore"})>>),
      RecordList(<<SeriesRecord(1, {"timestamp"})>>),
      ColumnLists(FieldOrder, <<>>) }
    \cup { RecordList(<<SeriesRecord(1, {f})>>) : f \in ScoreFields }
    \cup { RecordList(<<SeriesRecord(1, {"esgScore"}),
                        SeriesRecord(2, {"esgScore"})>>) }

NoSeries == RecordList(<<>>)

\* A response body: valid is whether it parses as JSON, esgChart and
\* hasResult whether data has "esgChart" and data["esgChart"] has "result",
\* result the list under that key, each element with or without a
\* "symbolSeries".
Body(valid, chart, hasResult, result) ==
    [valid |-> valid, esgChart |-> chart, hasResult |-> hasResult,
     result |-> result]

ResultElement(hasSeries, series) == [hasSeries |-> hasSeries, series |-> series]

BodyInputs ==
    { Body(FALSE, FALSE, FALSE, <<>>),
      Body(TRUE, FALSE, FALSE, <<>>),
      Body(TRUE, TRUE, FALSE, <<>>),
      Body(TRUE, TRUE, TRUE, <<>>),
      Body(TRUE, TRUE, TRUE, <<ResultElement(FALSE, NoSeries)>>) }
    \cup { Body(TRUE, TRUE, TRUE, <<ResultElement(TRUE, s)>>) : s \in SeriesInputs }

NoBody == Body(FALSE, FALSE, FALSE, <<>>)

\* What requests.get gives: raised is a RequestException (connection error,
\* timeout), otherwise a response with a status code and a body.
Reply(raised, status, body) == [raised |-> raised, status |-> status, body |-> body]

NoResponse == Reply(FALSE, 0, NoBody)

ErrorStatuses == {404, 429, 500}

Responses ==
    { Reply(TRUE, 0, NoBody) }
    \cup { Reply(FALSE, 200, b) : b \in BodyInputs }
    \cup { Reply(FALSE, st, NoBody) : st \in ErrorStatuses }

\* requests.Response.ok: the status is no 4xx or 5xx.
Ok(status) == status < 400

(***************************************************************************)
(* fetch_historical_esg: one ticker                                        *)
(***************************************************************************)
KeysOf(rec) == SelectSeq(FieldOrder, LAMBDA f : f \in DOMAIN rec)

\* The columns of a frame built from a list of records: their keys in
\* order of first appearance.
RecordColumns(recs) == FirstAppearance([k \in DOMAIN recs |-> KeysOf(recs[k])])

SeriesColumns(series) ==
    IF series.form = "records" THEN RecordColumns(series.recs) ELSE series.keys

\* pd.DataFrame(esg_data): one row per record, a key a record lacks is NaN.
DataFrameOf(series) ==
    With(SeriesColumns(series), LAMBDA cols :
        Table(cols,
              [k \in DOMAIN series.recs |->
                  [c \in Range(cols) |->
                      IF c \in DOMAIN series.recs[k] THEN <<series.recs[k][c]>>
                      ELSE NaN]]))

columns_to_keep ==
    <<"timestamp", "ticker", "esgScore", "governanceScore",
      "environmentScore", "socialScore">>

\* df["ticker"] = ticker
WithTicker(ticker, series) == SetColumn(DataFrameOf(series), "ticker", <<ticker>>)

\* df["timestamp"] = pd.to_datetime(df["timestamp"], unit="s")
WithTimestamps(df) ==
    With(df, LAMBDA d :
        Table(d.columns,
              [k \in DOMAIN d.rows |->
                  [c \in Range(d.columns) |->
                      IF c = "timestamp" THEN ToDatetime(d.rows[k][c])
                      ELSE d.rows[k][c]]]))

\* The frame one successful ticker appends to all_data.
TickerFrame(ticker, series) ==
    SelectColumns(WithTimestamps(WithTicker(ticker, series)), columns_to_keep)

\* Whether the extraction of a body that has the esgChart.result path
\* raises: result[0] of an empty list, a missing "symbolSeries", a frame
\* without a "timestamp" column, a label of columns_to_keep that is no column.
ExtractionRaises(ticker, body) ==
    \/ body.result = <<>>
    \/ ~body.result[1].hasSeries
    \/ With(WithTicker(ticker, body.result[1].series).columns, LAMBDA cols :
          \/ "timestamp" \notin Range(cols)
          \/ ~(Range(columns_to_keep) \subseteq Range(cols)))

\* The branch of the loop body a reply takes.
Branch(ticker, r) ==
    IF r.raised THEN "request_error"
    ELSE IF Ok(r.status) THEN
        IF ~r.body.valid THEN "invalid_json"
        ELSE IF r.body.esgChart /\ r.body.hasResult THEN
            IF ExtractionRaises(ticker, r.body) THEN "processing_error"
            ELSE "success"
        ELSE "no_data"
    ELSE IF r.status = 429 THEN "rate_limited"
    ELSE "http_error"

(***************************************************************************)
(* fetch_historical_esg: the loop                                          *)
(***************************************************************************)
\* EmptyColumns with the names of the source columns.
EmptyColumns_SourceNames ==
    <<"timestamp", "ticker", "esgScore", "governanceScore",
      "environmentScore", "socialScore">>

\* The table the function returns when all_data is empty.
EmptyColumns ==
    <<"ticker", "timestamp", "last_processing_date", "total_score",
      "environment_score", "social_score", "governance_score">>

EmptyFallback == Table(EmptyColumns, <<>>)

NoTable == Table(<<>>, <<>>)

\* trace is the sequence of blocking calls the run has made.
SleepCall(why, secs) == [op |-> "sleep", why |-> why, secs |-> secs, symbol |-> ""]
GetCall(symbol) == [op |-> "get", why |-> "", secs |-> 0, symbol |-> symbol]

\* console is the last per-ticker line printed.
Line(msg, ticker) == [msg |-> msg, ticker |-> ticker]

Init ==
    /\ tickers \in SeqsUpTo(Tickers, MaxTickers)
    /\ i = 1
    /\ pc = "loop"
    /\ response = NoResponse
    /\ all_data = <<>>
    /\ successful_tickers = 0
    /\ failed_tickers = 0
    /\ trace = <<>>
    /\ console = Line("starting", "")
    /\ served = <<>>
    /\ final_df = NoTable
    /\ final_esg_df = NoTable

\* time.sleep(delay + random.uniform(0, 3)) at the head of an iteration.
Pace ==
    /\ pc = "loop"
    /\ i <= Len(tickers)
    /\ trace' = Append(trace, SleepCall("pace", Delay))
    /\ pc' = "request"
    /\ UNCHANGED <<tickers, i, response, all_data, successful_tickers,
                   failed_tickers, console, served, final_df, final_esg_df>>

\* requests.get(url, params={"symbol": ticker}, ...): the endpoint answers
\* or the call raises.
Request ==
    /\ pc = "request"
    /\ \E r \in Responses : response' = r
    /\ trace' = Append(trace, GetCall(tickers[i]))
    /\ pc' = "handle"
    /\ UNCHANGED <<tickers, i, all_data, successful_tickers, failed_tickers,
                   console, served, final_df, final_esg_df>>

\* The series records the reply of a ticker delivered into all_data: those
\* of its symbolSeries when the ticker succeeds, none otherwise.
Delivered(ticker, r) ==
    IF Branch(ticker, r) = "success" THEN r.body.result[1].series.recs ELSE <<>>

\* The end of an iteration: the reply is consumed, the loop moves on.
\* served keeps, per ticker processed, the records its reply delivered.
NextTicker(msg) ==
    /\ console' = Line(msg, tickers[i])
    /\ served' = Append(served, Delivered(tickers[i], response))
    /\ response' = NoResponse
    /\ i' = i + 1
    /\ pc' = "loop"
    /\ UNCHANGED <<tickers, final_df, final_esg_df>>

Counted(frames, ok, failed) ==
    /\ all_data' = frames
    /\ successful_tickers' = ok
    /\ failed_tickers' = failed

AtBranch(b) == pc = "handle" /\ Branch(tickers[i], response) = b

\* HandleSuccess with the ticker column taken from the head of the list.
HandleSuccess_FirstTicker ==
    /\ AtBranch("success")
    /\ Counted(Append(all_data,
                      TickerFrame(tickers[1], response.body.result[1].series)),
               successful_tickers + 1, failed_tickers)
    /\ UNCHANGED trace
    /\ NextTicker("success")

HandleSuccess ==
    /\ AtBranch("success")
    /\ Counted(Append(all_data,
                      TickerFrame(tickers[i], response.body.result[1].series)),
               successful_tickers + 1, failed_tickers)
    /\ UNCHANGED trace
    /\ NextTicker("success")

\* HandleNoData without the count.
HandleNoData_Uncounted ==
    /\ AtBranch("no_data")
    /\ Counted(all_data, successful_tickers, failed_tickers)
    /\ UNCHANGED trace
    /\ NextTicker("no_data")

HandleNoData ==
    /\ AtBranch("no_data")
    /\ Counted(all_data, successful_tickers, failed_tickers + 1)
    /\ UNCHANGED trace
    /\ NextTicker("no_data")

\* response.json() raised.  Which except clause takes it depends on the
\* installed requests and JSON libraries (json.JSONDecodeError, a
\* RequestException subclass, or a plain ValueError); all three count the
\* ticker as failed and differ in the line printed.
HandleInvalidJson ==
    /\ AtBranch("invalid_json")
    /\ Counted(all_data, successful_tickers, failed_tickers + 1)
    /\ UNCHANGED trace
    /\ \E msg \in {"invalid_json", "request_error", "processing_error"} :
          NextTicker(msg)

\* HandleRateLimited counting the ticker as failed.
HandleRateLimited_CountsFailure ==
    /\ AtBranch("rate_limited")
    /\ trace' = Append(trace, SleepCall("backoff", BackoffSeconds))
    /\ Counted(all_data, successful_tickers, failed_tickers + 1)
    /\ NextTicker("rate_limited")

HandleRateLimited ==
    /\ AtBranch("rate_limited")
    /\ trace' = Append(trace, SleepCall("backoff", BackoffSeconds))
    /\ Counted(all_data, successful_tickers, failed_tickers)
    /\ NextTicker("rate_limited")

HandleHttpError ==
    /\ AtBranch("http_error")
    /\ Counted(all_data, successful_tickers, failed_tickers + 1)
    /\ UNCHANGED trace
    /\ NextTicker("http_error")

\* HandleRequestError leaving the loop instead of continuing it.
HandleRequestError_Aborts ==
    /\ AtBranch("request_error")
    /\ Counted(all_data, successful_tickers, failed_tickers + 1)
    /\ console' = Line("request_error", tickers[i])
    /\ served' = Append(served, <<>>)
    /\ response' = NoResponse
    /\ i' = Len(tickers) + 1
    /\ pc' = "loop"
    /\ UNCHANGED <<tickers, trace, final_df, final_esg_df>>

HandleRequestError ==
    /\ AtBranch("request_error")
    /\ Counted(all_data, successful_tickers, failed_tickers + 1)
    /\ UNCHANGED trace
    /\ NextTicker("request_error")

\* HandleProcessingError without the count.
HandleProcessingError_Uncounted ==
    /\ AtBranch("processing_error")
    /\ Counted(all_data, successful_tickers, failed_tickers)
    /\ UNCHANGED trace
    /\ NextTicker("processing_error")

HandleProcessingError ==
    /\ AtBranch("processing_error")
    /\ Counted(all_data, successful_tickers, failed_tickers + 1)
    /\ UNCHANGED trace
    /\ NextTicker("processing_error")

\* After the loop: pd.concat(all_data, ignore_index=True), or the empty
\* table with the predefined columns.
Combined(frames) == IF frames # <<>> THEN Concat(frames) ELSE EmptyFallback

Return ==
    /\ pc = "loop"
    /\ i > Len(tickers)
    /\ final_df' = Combined(all_data)
    /\ console' = Line("fetch_completed", "")
    /\ pc' = "format"
    /\ UNCHANGED <<tickers, i, response, all_data, successful_tickers,
                   failed_tickers, trace, served, final_esg_df>>

(***************************************************************************)
(* format_esg_data                                                         *)
(***************************************************************************)
column_mapping ==
    [esgScore |-> "total_score", governanceScore |-> "governance_score",
     environmentScore |-> "environment_score", socialScore |-> "social_score"]

Renamed(label) ==
    IF label \in DOMAIN column_mapping THEN column_mapping[label] ELSE label

\* esg_df.rename(columns=column_mapping)
Rename(df) ==
    With(df, LAMBDA d :
        Table([k \in DOMAIN d.columns |-> Renamed(d.columns[k])],
              [k \in DOMAIN d.rows |->
                  [c \in {Renamed(l) : l \in Range(d.columns)} |->
                      d.rows[k][CHOOSE l \in Range(d.columns) : Renamed(l) = c]]]))

LeadingColumns == <<"ticker", "timestamp", "last_processing_date">>

ScoreColumns ==
    <<"total_score", "environment_score", "social_score", "governance_score">>

\* OutputColumns with the score columns in the order of column_mapping.
OutputColumns_MappingOrder(df) ==
    LeadingColumns \o
    SelectSeq(<<"total_score", "governance_score", "environment_score",
                "social_score">>, LAMBDA c : c \in Range(df.columns))

\* cols: the three leading columns, then the score columns df has.
OutputColumns(df) ==
    LeadingColumns \o SelectSeq(ScoreColumns, LAMBDA c : c \in Range(df.columns))

\* format_esg_data without the early return.
format_esg_data_NoEmptyCheck(esg_df, today) ==
    With(SetColumn(Rename(esg_df), "last_processing_date", <<today>>),
         LAMBDA stamped : SelectColumns(stamped, OutputColumns(stamped)))

format_esg_data(esg_df, today) ==
    IF IsEmpty(esg_df) THEN esg_df
    ELSE With(SetColumn(Rename(esg_df), "last_processing_date", <<today>>),
              LAMBDA stamped : SelectColumns(stamped, OutputColumns(stamped)))

\* final_esg_df = format_esg_data(raw_esg_df) of the main block.
Format ==
    /\ pc = "format"
    /\ \E today \in Dates : final_esg_df' = format_esg_data(final_df, today)
    /\ pc' = "done"
    /\ UNCHANGED <<tickers, i, response, all_data, successful_tickers,
                   failed_tickers, trace, console, served, final_df>>

Next ==
    \/ Pace
    \/ Request
    \/ HandleSuccess
    \/ HandleNoData
    \/ HandleInvalidJson
    \/ HandleRateLimited
    \/ HandleHttpError
    \/ HandleRequestError
    \/ HandleProcessingError
    \/ Return
    \/ Format

Spec == Init /\ [][Next]_vars

\* The run is sequential and every blocking call ends (the sleeps are
\* finite, the request has timeout=10), so a step that can be taken is taken.
FairSpec == Spec /\ WF_vars(Next)

(***************************************************************************)
(* format_esg_data on its own: any table with the ticker and timestamp     *)
(* columns (every caller passes the result of fetch_historical_esg), with  *)
(* any subset of the four source score columns, with or without a column   *)
(* the formatter does not know, in either column order, and the two empty  *)
(* tables without those columns.                                           *)
(***************************************************************************)
InputColumns ==
    { SelectSeq(columns_to_keep,
                LAMBDA c : c \in {"timestamp", "ticker"} \cup S) \o extra :
        S \in SUBSET ScoreFields, extra \in {<<>>, <<"peerGroup">>} }

InputRow(cols, k) ==
    [c \in Range(cols) |->
        CASE c = "ticker"    -> <<IF k = 1 THEN "AAA" ELSE "BBB">>
          [] c = "timestamp" -> ToDatetime(<<SeriesRecord(k, {}).timestamp>>)
          [] c = "peerGroup" -> <<"Banks">>
          [] OTHER           -> <<SeriesRecord(k, {})[c]>>]

FormatInputs ==
    { Table(cols, [k \in 1..n |-> InputRow(cols, k)]) :
        cols \in InputColumns \cup {Reverse(c) : c \in InputColumns},
        n \in 0..2 }
    \cup {NoTable, EmptyFallback}

FormatInit ==
    /\ tickers = <<>>
    /\ i = 1
    /\ pc = "format"
    /\ response = NoResponse
    /\ all_data = <<>>
    /\ successful_tickers = 0
    /\ failed_tickers = 0
    /\ trace = <<>>
    /\ console = Line("starting", "")
    /\ served = <<>>
    /\ final_df \in FormatInputs
    /\ final_esg_df = NoTable

\* format_esg_data applied again, to its own result.
Reformat ==
    /\ pc \in {"done", "again"}
    /\ \E today \in Dates : final_esg_df' = format_esg_data(final_esg_df, today)
    /\ pc' = "again"
    /\ UNCHANGED <<tickers, i, response, all_data, successful_tickers,
                   failed_tickers, trace, console, served, final_df>>

FormatNext ==
    \/ Format
    \/ Reformat

FormatSpec == FormatInit /\ [][FormatNext]_vars

(***************************************************************************)
(* Vocabulary of the properties                                            *)
(***************************************************************************)
\* fetch_historical_esg has returned.
Returned == pc \in {"format", "done"}

Gets(tr) == SelectSeq(tr, LAMBDA e : e.op = "get")

PaceWaits(tr) == SelectSeq(tr, LAMBDA e : e.op = "sleep" /\ e.why = "pace")

Backoffs(tr) == SelectSeq(tr, LAMBDA e : e.op = "sleep" /\ e.why = "backoff")

Is2xx(status) == status \in 200..299

\* For each row the tickers processed so far delivered, in order of
\* delivery, the list position of the ticker it came from.
Origin ==
    Flatten([k \in DOMAIN served |-> [j \in DOMAIN served[k] |-> k]])

TickerValues(df) == {df.rows[n]["ticker"][1] : n \in DOMAIN df.rows}

PostFormatSchema ==
    <<"ticker", "timestamp", "last_processing_date", "total_score",
      "environment_score", "social_score", "governance_score">>

(***************************************************************************)
(* C1                                                                      *)
(***************************************************************************)
C1_Requests ==
    /\ Len(Gets(trace)) <= Len(tickers)
    /\ \A k \in DOMAIN Gets(trace) : Gets(trace)[k].symbol = tickers[k]
    /\ \A p \in DOMAIN trace :
          trace[p].op = "get" =>
             /\ p > 1
             /\ trace[p - 1].op = "sleep"
             /\ trace[p - 1].why = "pace"
    /\ Len(PaceWaits(trace)) = Len(Gets(trace)) + (IF pc = "request" THEN 1 ELSE 0)
    /\ Returned =>
          /\ Len(Gets(trace)) = Len(tickers)
          /\ final_df.columns # <<>>

\* C1: whatever the ticker list and the per-ticker outcomes, the k-th request
\* of the run is for the k-th ticker of the list and comes right after a
\* pacing wait, there are as many pacing waits as requests, no ticker is
\* requested twice, and the run always reaches the return of
\* fetch_historical_esg, having requested every ticker and holding a table.
C1_OneRequestPerTickerAndReturn == []C1_Requests /\ <>Returned

C1_Witness ==
    /\ Returned
    /\ Len(tickers) = 3
    /\ Len(Gets(trace)) = 3
    /\ Len(Backoffs(trace)) = 1
    /\ failed_tickers = 1
    /\ successful_tickers = 1

(***************************************************************************)
(* C2                                                                      *)
(***************************************************************************)
\* The per-item errors: a network exception, an error status other than the
\* rate-limit status 429, a 2xx body that is no JSON, a 2xx body without
\* the esgChart.result path.
TransientError(r) ==
    \/ r.raised
    \/ ~r.raised /\ ~Is2xx(r.status) /\ r.status # 429
    \/ ~r.raised /\ Is2xx(r.status) /\ ~r.body.valid
    \/ ~r.raised /\ Is2xx(r.status) /\ r.body.valid
          /\ ~(r.body.esgChart /\ r.body.hasResult)

C3_Step ==
    (pc = "handle" /\ ~response.raised /\ response.status = 429) =>
       /\ trace' = Append(trace, [op |-> "sleep", why |-> "backoff",
                                  secs |-> 10, symbol |-> ""])
       /\ all_data' = all_data
       /\ served' = Append(served, <<>>)
       /\ successful_tickers' = successful_tickers
       /\ failed_tickers' = failed_tickers
       /\ i' = i + 1
       /\ pc' = "loop"

C3_NoSecondRequest ==
    /\ Len(Gets(trace)) = (i - 1) + (IF pc = "handle" THEN 1 ELSE 0)
    /\ \A p \in DOMAIN trace :
          (trace[p].op = "sleep" /\ trace[p].why = "backoff") =>
             /\ p > 1
             /\ trace[p - 1].op = "get"
             /\ p < Len(trace) => trace[p + 1].op = "sleep" /\ trace[p + 1].why = "pace"

\* C3: handling an HTTP 429 reply makes one 10-second wait and moves the
\* loop to the next ticker with both counters and all_data unchanged; the
\* run makes one request per list position, so what follows a backoff wait
\* is the pacing wait of the next position, never a second request.
C3_RateLimitedIsSkipped == [][C3_Step]_vars /\ []C3_NoSecondRequest

C3_Witness ==
    /\ Returned
    /\ Len(tickers) = 2
    /\ Len(Backoffs(trace)) = 1
    /\ trace[3].why = "backoff"
    /\ served[1] = <<>>
    /\ successful_tickers = 1
    /\ failed_tickers = 0

(***************************************************************************)
(* C4                                                                      *)
(***************************************************************************)
C4_RowsOf(df) ==
    /\ Len(df.rows) = Len(Origin)
    /\ \A n \in DOMAIN df.rows : df.rows[n]["ticker"] = <<tickers[Origin[n]]>>
    /\ TickerValues(df) \subseteq Range(tickers)
    /\ TickerValues(df) = {tickers[k] : k \in {j \in DOMAIN served : served[j] # <<>>}}

\* C4: for a non-empty ticker list, once fetch_historical_esg has returned,
\* the n-th row of its table carries the ticker of the list position whose
\* reply delivered the n-th record, so the ticker values of the table are
\* tickers of the list, and are exactly the tickers that succeeded with at
\* least one record; the same holds of the formatted table.
C4_RowsCarryTheirTicker ==
    (Returned /\ tickers # <<>>) =>
        /\ C4_RowsOf(final_df)
        /\ pc = "done" => C4_RowsOf(final_esg_df)

C4_Witness ==
    /\ pc = "done"
    /\ Len(tickers) = 3
    /\ TickerValues(final_esg_df) = {"AAA", "BBB"}
    /\ Len(final_esg_df.rows) = 3
    /\ failed_tickers = 1

(***************************************************************************)
(* C5                                                                      *)
(***************************************************************************)
\* The row of the combined table a series record of a ticker gives.
C5_Row(ticker, rec) ==
    [c \in Range(columns_to_keep) |->
        CASE c = "ticker" -> <<ticker>>
          [] c = "timestamp" ->
                IF c \in DOMAIN rec
                THEN <<rec[c] \div 86400, rec[c] % 86400>> ELSE <<>>
          [] OTHER -> IF c \in DOMAIN rec THEN <<rec[c]>> ELSE <<>>]

\* C5: when a ticker succeeded, the rows of the table fetch_historical_esg
\* returns are the records of the successful tickers, ticker after ticker
\* in the order the tickers were processed and, inside a ticker, in the
\* order of its series; failed and rate-limited tickers add nothing.
C5_ConcatenationInOrder ==
    (Returned /\ successful_tickers > 0) =>
        final_df.rows =
            Flatten([k \in DOMAIN served |->
                [j \in DOMAIN served[k] |-> C5_Row(tickers[k], served[k][j])]])

C5_Witness ==
    /\ Returned
    /\ Len(served) = 3
    /\ Len(served[1]) = 2
    /\ served[2] = <<>>
    /\ Len(served[3]) = 2
    /\ tickers[1] # tickers[3]
    /\ Len(Backoffs(trace)) = 1
    /\ Len(final_df.rows) = 4

(***************************************************************************)
(* C6                                                                      *)
(***************************************************************************)
C6_Source ==
    [total_score |-> "esgScore", environment_score |-> "environmentScore",
     social_score |-> "socialScore", governance_score |-> "governanceScore"]

C6_Columns(input) ==
    <<"ticker", "timestamp", "last_processing_date">> \o
    SelectSeq(<<"total_score", "environment_score", "social_score",
                "governance_score">>,
              LAMBDA c : C6_Source[c] \in Range(input.columns))

\* C6: format_esg_data of a non-empty table has the columns ticker,
\* timestamp, last_processing_date and then, in the order total_score,
\* environment_score, social_score, governance_score, those whose source
\* column the input has, and no other; it has the input's rows in the
\* input's order, each with the input's ticker, timestamp and scores, and
\* one last_processing_date in all rows.
C6_FormattedColumns ==
    (pc = "done" /\ ~IsEmpty(final_df)) =>
        /\ final_esg_df.columns = C6_Columns(final_df)
        /\ Len(final_esg_df.rows) = Len(final_df.rows)
        /\ \A k \in DOMAIN final_esg_df.rows :
              /\ DOMAIN final_esg_df.rows[k] = Range(C6_Columns(final_df))
              /\ final_esg_df.rows[k]["ticker"] = final_df.rows[k]["ticker"]
              /\ final_esg_df.rows[k]["timestamp"] = final_df.rows[k]["timestamp"]
              /\ \A c \in DOMAIN C6_Source :
                    C6_Source[c] \in Range(final_df.columns) =>
                       final_esg_df.rows[k][c] = final_df.rows[k][C6_Source[c]]
              /\ final_esg_df.rows[k]["last_processing_date"] =
                    final_esg_df.rows[1]["last_processing_date"]
              /\ final_esg_df.rows[k]["last_processing_date"] \in
                    {<<d>> : d \in Dates}

C6_Witness ==
    /\ pc = "done"
    /\ Len(final_df.rows) = 2
    /\ final_df.columns = <<"peerGroup", "socialScore", "esgScore", "ticker", "timestamp">>
    /\ final_esg_df.columns =
          <<"ticker", "timestamp", "last_processing_date", "total_score",
            "social_score">>

(***************************************************************************)
(* C7                                                                      *)
(***************************************************************************)
\* C7 as stated: when no ticker succeeds the table returned is empty and
\* its column set differs from the post-formatting schema.
C7_FallbackSchemaDiffers ==
    (Returned /\ successful_tickers = 0) =>
        /\ final_df.rows = <<>>
        /\ Range(final_df.columns) # Range(PostFormatSchema)

\* C7 as amended: when no ticker succeeds the table returned is empty and
\* its columns are the post-formatting schema, in the schema's order;
\* format_esg_data returns it unchanged, so the pipeline's output has the
\* columns a formatted non-empty table has.
C7_FallbackSchemaIsPostFormat ==
    /\ (Returned /\ successful_tickers = 0) =>
          /\ final_df.rows = <<>>
          /\ final_df.columns = PostFormatSchema
          /\ pc = "done" => final_esg_df = final_df
    /\ (pc = "done" /\ final_esg_df.rows # <<>>) =>
          final_esg_df.columns = PostFormatSchema

C7_Witness ==
    /\ pc = "done"
    /\ Len(tickers) = 2
    /\ successful_tickers = 0
    /\ failed_tickers = 1
    /\ Len(Backoffs(trace)) = 1
    /\ final_esg_df.columns = PostFormatSchema

(***************************************************************************)
(* C8                                                                      *)
(***************************************************************************)
\* C8: format_esg_data of an empty table, whatever its columns, is that
\* table, and so is the result of any number of further applications.
C8_EmptyUnchanged ==
    (pc \in {"done", "again"} /\ IsEmpty(final_df)) => final_esg_df = final_df

C8_Witness ==
    /\ pc = "again"
    /\ final_df.rows = <<>>
    /\ final_df.columns = <<"timestamp", "ticker", "esgScore", "socialScore">>
    /\ final_esg_df = final_df

(***************************************************************************)
(* C9                                                                      *)
(***************************************************************************)
\* A 2xx reply with a series of records that all have a timestamp and all
\* lack the same one score.
C9_OmitsOneScore(r) ==
    /\ ~r.raised
    /\ Is2xx(r.status)
    /\ r.body.valid /\ r.body.esgChart /\ r.body.hasResult
    /\ r.body.result # <<>>
    /\ r.body.result[1].hasSeries
    /\ r.body.result[1].series.form = "records"
    /\ r.body.result[1].series.recs # <<>>
    /\ \E f \in ScoreFields :
          \A k \in DOMAIN r.body.result[1].series.recs :
             DOMAIN r.body.result[1].series.recs[k] = Range(FieldOrder) \ {f}

\* C9: a 2xx reply whose records all carry a timestamp and omit one of the
\* four scores is a success: successful_tickers grows by one, failed_tickers
\* does not change, and the ticker's frame has one row per record.
C9_MissingScoreIsSuccess ==
    [][(pc = "handle" /\ C9_OmitsOneScore(response)) =>
          /\ successful_tickers' = successful_tickers + 1
          /\ failed_tickers' = failed_tickers
          /\ Len(all_data') = Len(all_data) + 1
          /\ Len(all_data'[Len(all_data')].rows) =
                Len(response.body.result[1].series.recs)]_vars

(***************************************************************************)
(* C10                                                                     *)
(***************************************************************************)
C10_Counters ==
    /\ pc \in {"loop", "request"} =>
          successful_tickers + failed_tickers + Len(Backoffs(trace)) = i - 1
    /\ Len(all_data) = successful_tickers
    /\ Returned =>
          /\ successful_tickers + failed_tickers + Len(Backoffs(trace)) = Len(tickers)
          /\ (final_df = Table(PostFormatSchema, <<>>)) <=> (successful_tickers = 0)

C10_Step ==
    pc = "handle" =>
       <<successful_tickers' - successful_tickers,
         failed_tickers' - failed_tickers,
         Len(Backoffs(trace')) - Len(Backoffs(trace))>>
          \in {<<1, 0, 0>>, <<0, 1, 0>>, <<0, 0, 1>>}

\* C10: between iterations, with k tickers processed, successful_tickers +
\* failed_tickers + the number of 429 replies is k; handling a reply raises
\* exactly one of the three by exactly one; all_data holds successful_tickers
\* frames; and what is returned is the fallback empty table if and only if
\* successful_tickers is 0.
C10_CounterInvariant == []C10_Counters /\ [][C10_Step]_vars

C10_Witness ==
    /\ Returned
    /\ Len(tickers) = 3
    /\ successful_tickers = 1
    /\ failed_tickers = 1
    /\ Len(Backoffs(trace)) = 1
    /\ Len(all_data) = 1

====
